---------------------------- MODULE Spec2Model ----------------------------
(***************************************************************************)
(* Model of the circuit breaker of bjaus/breaker (breaker.go, option.go).  *)
(*                                                                         *)
(* The shared fields of Circuit are the variables state, failures,         *)
(* successes, halfOpenCnt and openedAt; the injected clock is now.  Each   *)
(* caller of Do is a process whose position in Do is pc[p] and whose local *)
(* variables are locals[p].  The critical sections of the code (allow,     *)
(* record, State, Reset, Counts) are single steps, because they run with   *)
(* c.mu held; everything Do does between them is a step of its own.        *)
(*                                                                         *)
(* ev describes the last step taken: the operation, the caller, the hooks  *)
(* the step fired (in order) and the value it returned.  consec, winAdmits *)
(* and winSucc are history variables that count what happened, without     *)
(* reading the counters of the circuit.  fresh is the set of callers whose  *)
(* operation is in flight and was admitted since the last change of state. *)
(* mu is the holder of c.mu.  ev.snaps holds, for every change of state of *)
(* the step, the fields as they were when onStateChange was reached.       *)
(***************************************************************************)
EXTENDS Integers, Sequences, FiniteSets, TLC

VARIABLES cfg, now, mu, state, failures, successes, halfOpenCnt, openedAt,
          pc, locals, ev, consec, winAdmits, winSucc, fresh, lastTo

circuit == <<state, failures, successes, halfOpenCnt, openedAt>>
history == <<consec, winAdmits, winSucc, fresh, lastTo>>
vars == <<cfg, now, mu, state, failures, successes, halfOpenCnt, openedAt,
          pc, locals, ev, consec, winAdmits, winSucc, fresh, lastTo>>

----------------------------------------------------------------------------
(* Bounds of the model *)

MaxThreshold == 2
MaxDuration == 2
MaxTime == 4
(* The instant from which every operation succeeds, in SpecLive *)
HealTime == 1

----------------------------------------------------------------------------
(* type State, breaker.go *)

Closed == 0
Open == 1
HalfOpen == 2

(* Errors are chains: the outermost error first, what it wraps after it.   *)
(* nil is the empty chain.                                                 *)
nil == <<>>
ErrOpen == <<"circuit open">>
errTest == <<"test error">>
errPermanent == <<"permanent">>
errWrappedOpen == <<"inner circuit", "circuit open">>

(* errors.Is(err, target) for a sentinel target: some error of the chain   *)
(* is the target.                                                          *)
errorsIs(err, target) == \E i \in 1..Len(err) : err[i] = target[1]

IsOpen(err) == errorsIs(err, ErrOpen)

(* Conditions: defaultCondition, a predicate errors.Is(err, target), and   *)
(* Not(cond).                                                              *)
defaultCondition == <<"default">>
isErr(target) == <<"is", target>>
(* Not leaving the predicate as it is *)
Not_identity(cond) == cond
Not(cond) == <<"not", cond>>
(* If leaving the default condition in place *)
If_ignored(cond) == defaultCondition
If(cond) == cond
IfNot(cond) == If(Not(cond))

RECURSIVE condition(_, _)
condition(cond, err) ==
    CASE cond[1] = "default" -> err # nil
      [] cond[1] = "is" -> errorsIs(err, cond[2])
      [] cond[1] = "not" -> ~condition(cond[2], err)

----------------------------------------------------------------------------
(* Callers and the values the model draws from *)

Callers == {"g1", "g2"}
(* The five calls made at once on a HalfOpen circuit *)
Probers == {"p1", "p2", "p3", "p4", "p5"}
AllCallers == Callers \cup Probers
NoCaller == "-"

BasicErrors == {nil, errTest}
AllErrors == {nil, errTest, errPermanent, ErrOpen, errWrappedOpen}

NewConfig(ft, st, d, k, cond) ==
    [name |-> "test", failureThreshold |-> ft, successThreshold |-> st,
     openDuration |-> d, halfOpenRequests |-> k, condition |-> cond,
     onStateChange |-> TRUE, onCall |-> TRUE, onReject |-> TRUE]

(* The configurations of the concurrent model vary the failure threshold,  *)
(* the probation pair (successThreshold, halfOpenRequests) and the open    *)
(* duration one at a time; those of the sequential model vary all of them  *)
(* and the condition.                                                      *)
(* The defaults of New, durations in seconds *)
DefaultFailureThreshold == 5
DefaultSuccessThreshold == 2
DefaultOpenDuration == 30
DefaultHalfOpenRequests == 1

DefaultConfig ==
    NewConfig(DefaultFailureThreshold, DefaultSuccessThreshold,
              DefaultOpenDuration, DefaultHalfOpenRequests, defaultCondition)

(* failureThreshold 1, halfOpenRequests 1, the default successThreshold *)
ProbeConfigs ==
    {NewConfig(1, DefaultSuccessThreshold, d, 1, defaultCondition) :
        d \in 1..MaxDuration}

(* Thresholds and durations the options accept without validation *)
Unvalidated == {-1, 0, 1}
LooseConfigs ==
    {NewConfig(ft, 1, 1, 1, defaultCondition) : ft \in Unvalidated}
        \cup {NewConfig(1, st, 1, 1, defaultCondition) : st \in Unvalidated}
        \cup {NewConfig(1, 1, d, k, defaultCondition) :
                  d \in Unvalidated, k \in 0..1}

(* failureThreshold >= 1 and halfOpenRequests >= successThreshold >= 1 *)
LiveConfigs ==
    {NewConfig(ft, 1, 1, 1, defaultCondition) : ft \in 1..MaxThreshold}
        \cup UNION {{NewConfig(1, st, 1, k, defaultCondition) :
                        k \in st..MaxThreshold} : st \in 1..MaxThreshold}
        \cup {NewConfig(1, 1, d, 1, defaultCondition) : d \in 1..MaxDuration}

Configs ==
    { NewConfig(ft, 1, 1, 1, defaultCondition) : ft \in 1..MaxThreshold }
    \cup { NewConfig(1, st, 1, k, defaultCondition) :
              st \in 1..MaxThreshold, k \in 0..MaxThreshold }
    \cup { NewConfig(1, 1, d, 1, defaultCondition) : d \in 1..MaxDuration }

SeqConfigs ==
    { NewConfig(ft, st, d, k, cond) :
        ft \in 1..MaxThreshold, st \in 1..MaxThreshold,
        d \in 1..MaxDuration, k \in 0..MaxThreshold,
        cond \in {defaultCondition, If(isErr(errTest)), IfNot(isErr(errPermanent))} }

----------------------------------------------------------------------------
(* The circuit's methods, as functions of the memory m: the five fields    *)
(* and the hooks fired so far in this step.                                *)

(* The circuit as a method finds it after c.mu.Lock() *)
Held == "held"
Mem == [state |-> state, failures |-> failures, successes |-> successes,
        halfOpenCnt |-> halfOpenCnt, openedAt |-> openedAt, mu |-> Held,
        hooks |-> <<>>, snaps |-> <<>>]

(* The fields, and the mutex, as a hook invoked at this point finds them *)
Snapshot(m) ==
    <<m.state, m.failures, m.successes, m.halfOpenCnt, m.openedAt, m.mu>>

StateChangeHook(from, to) == <<"onStateChange", cfg.name, from, to>>
CallHook(s, e) == <<"onCall", cfg.name, s, e>>
RejectHook == <<"onReject", cfg.name>>

(* setState without its early return: an identity transition fires too *)
setState_noGuard(m, to) ==
    LET m1 == [m EXCEPT !.state = to, !.failures = 0,
                        !.successes = 0, !.halfOpenCnt = 0]
        m2 == IF to = Open THEN [m1 EXCEPT !.openedAt = now] ELSE m1
        m3 == [m2 EXCEPT !.snaps = Append(@, Snapshot(m2))]
    IN  IF cfg.onStateChange
        THEN [m3 EXCEPT !.hooks = Append(@, StateChangeHook(m.state, to))]
        ELSE m3

(* setState firing no hook when the circuit closes *)
setState_quietClose(m, to) ==
    IF m.state = to
    THEN m
    ELSE LET m1 == [m EXCEPT !.state = to, !.failures = 0,
                             !.successes = 0, !.halfOpenCnt = 0]
             m2 == IF to = Open THEN [m1 EXCEPT !.openedAt = now] ELSE m1
             m3 == [m2 EXCEPT !.snaps = Append(@, Snapshot(m2))]
         IN  IF cfg.onStateChange /\ to # Closed
             THEN [m3 EXCEPT !.hooks = Append(@, StateChangeHook(m.state, to))]
             ELSE m3

(* setState leaving the success counter as it was *)
setState_keepSuccesses(m, to) ==
    IF m.state = to
    THEN m
    ELSE LET m1 == [m EXCEPT !.state = to, !.failures = 0, !.halfOpenCnt = 0]
             m2 == IF to = Open THEN [m1 EXCEPT !.openedAt = now] ELSE m1
             m3 == [m2 EXCEPT !.snaps = Append(@, Snapshot(m2))]
         IN  IF cfg.onStateChange
             THEN [m3 EXCEPT !.hooks = Append(@, StateChangeHook(m.state, to))]
             ELSE m3

(* setState re-arming the open period only when it leaves Closed *)
setState_armOnce(m, to) ==
    IF m.state = to
    THEN m
    ELSE LET m1 == [m EXCEPT !.state = to, !.failures = 0,
                             !.successes = 0, !.halfOpenCnt = 0]
             m2 == IF to = Open /\ m.state = Closed
                   THEN [m1 EXCEPT !.openedAt = now] ELSE m1
             m3 == [m2 EXCEPT !.snaps = Append(@, Snapshot(m2))]
         IN  IF cfg.onStateChange
             THEN [m3 EXCEPT !.hooks = Append(@, StateChangeHook(m.state, to))]
             ELSE m3

(* setState invoking the hook before it stores the change *)
setState_hookFirst(m, to) ==
    IF m.state = to
    THEN m
    ELSE LET m1 == [m EXCEPT !.state = to, !.failures = 0,
                             !.successes = 0, !.halfOpenCnt = 0]
             m2 == IF to = Open THEN [m1 EXCEPT !.openedAt = now] ELSE m1
             m3 == [m2 EXCEPT !.snaps = Append(@, Snapshot(m))]
         IN  IF cfg.onStateChange
             THEN [m3 EXCEPT !.hooks = Append(@, StateChangeHook(m.state, to))]
             ELSE m3

setState(m, to) ==
    IF m.state = to
    THEN m
    ELSE LET m1 == [m EXCEPT !.state = to, !.failures = 0,
                             !.successes = 0, !.halfOpenCnt = 0]
             m2 == IF to = Open THEN [m1 EXCEPT !.openedAt = now] ELSE m1
             m3 == [m2 EXCEPT !.snaps = Append(@, Snapshot(m2))]
         IN  IF cfg.onStateChange
             THEN [m3 EXCEPT !.hooks = Append(@, StateChangeHook(m.state, to))]
             ELSE m3

(* The comparisons of lines 196, 158, 176 and 188 *)
openElapsed_strict(m) == now - m.openedAt > cfg.openDuration
openElapsed(m) == now - m.openedAt >= cfg.openDuration

limitReached_offByOne(m) == m.halfOpenCnt > cfg.halfOpenRequests
limitReached(m) == m.halfOpenCnt >= cfg.halfOpenRequests

thresholdReached_late(m) == m.failures > cfg.failureThreshold
(* the threshold compared for equality *)
thresholdReached_exact(m) == m.failures = cfg.failureThreshold
thresholdReached(m) == m.failures >= cfg.failureThreshold

probesPassed_late(m) == m.successes > cfg.successThreshold
probesPassed(m) == m.successes >= cfg.successThreshold

(* currentState without the test for Open *)
currentState_anyState(m) ==
    IF openElapsed(m)
    THEN setState(m, HalfOpen)
    ELSE m

currentState(m) ==
    IF m.state = Open /\ openElapsed(m)
    THEN setState(m, HalfOpen)
    ELSE m

(* allow without c.halfOpenCnt++ *)
allow_noCount(m) ==
    LET m1 == currentState(m)
    IN  CASE m1.state = Open -> [m |-> m1, state |-> m1.state, err |-> ErrOpen]
          [] m1.state = HalfOpen ->
                IF limitReached(m1)
                THEN [m |-> m1, state |-> m1.state, err |-> ErrOpen]
                ELSE [m |-> m1, state |-> m1.state, err |-> nil]
          [] OTHER -> [m |-> m1, state |-> m1.state, err |-> nil]

(* allow handing Do the state it found before the re-check *)
allow_staleState(m) ==
    LET m1 == currentState(m)
    IN  CASE m1.state = Open -> [m |-> m1, state |-> m.state, err |-> ErrOpen]
          [] m1.state = HalfOpen ->
                IF limitReached(m1)
                THEN [m |-> m1, state |-> m.state, err |-> ErrOpen]
                ELSE [m |-> [m1 EXCEPT !.halfOpenCnt = @ + 1],
                      state |-> m.state, err |-> nil]
          [] OTHER -> [m |-> m1, state |-> m.state, err |-> nil]

(* allow counting a rejected call as a probe *)
allow_countRejected(m) ==
    LET m1 == currentState(m)
    IN  CASE m1.state = Open -> [m |-> m1, state |-> m1.state, err |-> ErrOpen]
          [] m1.state = HalfOpen ->
                IF limitReached(m1)
                THEN [m |-> [m1 EXCEPT !.halfOpenCnt = @ + 1],
                      state |-> m1.state, err |-> ErrOpen]
                ELSE [m |-> [m1 EXCEPT !.halfOpenCnt = @ + 1],
                      state |-> m1.state, err |-> nil]
          [] OTHER -> [m |-> m1, state |-> m1.state, err |-> nil]

(* allow admitting calls while Open *)
allow_whileOpen(m) ==
    LET m1 == currentState(m)
    IN  CASE m1.state = HalfOpen ->
                IF limitReached(m1)
                THEN [m |-> m1, state |-> m1.state, err |-> ErrOpen]
                ELSE [m |-> [m1 EXCEPT !.halfOpenCnt = @ + 1],
                      state |-> m1.state, err |-> nil]
          [] OTHER -> [m |-> m1, state |-> m1.state, err |-> nil]

allow(m) ==
    LET m1 == currentState(m)
    IN  CASE m1.state = Open -> [m |-> m1, state |-> m1.state, err |-> ErrOpen]
          [] m1.state = HalfOpen ->
                IF limitReached(m1)
                THEN [m |-> m1, state |-> m1.state, err |-> ErrOpen]
                ELSE [m |-> [m1 EXCEPT !.halfOpenCnt = @ + 1],
                      state |-> m1.state, err |-> nil]
          [] OTHER -> [m |-> m1, state |-> m1.state, err |-> nil]

(* record switching on the stored state, without c.currentState() *)
record_noRecheck(m, err) ==
    LET isFailure == condition(cfg.condition, err)
        m1 == m
    IN  CASE m1.state = Closed ->
                IF isFailure
                THEN LET m2 == [m1 EXCEPT !.failures = @ + 1]
                     IN  IF thresholdReached(m2)
                         THEN setState(m2, Open)
                         ELSE m2
                ELSE [m1 EXCEPT !.failures = 0]
          [] m1.state = HalfOpen ->
                IF isFailure
                THEN setState(m1, Open)
                ELSE LET m2 == [m1 EXCEPT !.successes = @ + 1]
                     IN  IF probesPassed(m2)
                         THEN setState(m2, Closed)
                         ELSE m2
          [] OTHER -> m1

(* record re-arming the open period for a failure that arrives while Open *)
record_lateFailure(m, err) ==
    LET isFailure == condition(cfg.condition, err)
        m1 == currentState(m)
    IN  CASE m1.state = Closed ->
                IF isFailure
                THEN LET m2 == [m1 EXCEPT !.failures = @ + 1]
                     IN  IF thresholdReached(m2)
                         THEN setState(m2, Open)
                         ELSE m2
                ELSE [m1 EXCEPT !.failures = 0]
          [] m1.state = HalfOpen ->
                IF isFailure
                THEN setState(m1, Open)
                ELSE LET m2 == [m1 EXCEPT !.successes = @ + 1]
                     IN  IF probesPassed(m2)
                         THEN setState(m2, Closed)
                         ELSE m2
          [] OTHER -> IF isFailure THEN [m1 EXCEPT !.openedAt = now] ELSE m1

record(m, err) ==
    LET isFailure == condition(cfg.condition, err)
        m1 == currentState(m)
    IN  CASE m1.state = Closed ->
                IF isFailure
                THEN LET m2 == [m1 EXCEPT !.failures = @ + 1]
                     IN  IF thresholdReached(m2)
                         THEN setState(m2, Open)
                         ELSE m2
                ELSE [m1 EXCEPT !.failures = 0]
          [] m1.state = HalfOpen ->
                IF isFailure
                THEN setState(m1, Open)
                ELSE LET m2 == [m1 EXCEPT !.successes = @ + 1]
                     IN  IF probesPassed(m2)
                         THEN setState(m2, Closed)
                         ELSE m2
          [] OTHER -> m1

Reset(m) == setState(m, Closed)

(* c.mu: Lock() needs the mutex free; the deferred Unlock() of allow,      *)
(* record, State, Reset and Counts releases it when the method returns.    *)
Free == "free"
(* allow keeping the mutex while the operation runs *)
Unlock_afterFn(method, holder) == IF method = "allow" THEN holder ELSE Free
Unlock(method, holder) == Free
Locked(method, holder) == mu = Free /\ mu' = Unlock(method, holder)

Counts(m) == <<m.failures, m.successes>>

(* What Do hands to the caller and to its hooks *)
DoRejectHooks == IF cfg.onReject THEN <<RejectHook>> ELSE <<>>
DoRejectResult(l) == l.err
(* onCall handed the state after the outcome was recorded *)
DoCallHooks_postState(l) == IF cfg.onCall THEN <<CallHook(state, l.fnErr)>> ELSE <<>>
DoCallHooks(l) == IF cfg.onCall THEN <<CallHook(l.state, l.fnErr)>> ELSE <<>>
(* Do returning only the errors that count as failures *)
DoResult_masked(l) == IF condition(cfg.condition, l.fnErr) THEN l.fnErr ELSE nil
DoResult(l) == l.fnErr

----------------------------------------------------------------------------
(* History variables *)

(* The zero value of Run's result type, and the values fn returns *)
Zero == 0
Values == {Zero, 42}

NoLocals == [state |-> Closed, err |-> nil, fnErr |-> nil, result |-> Zero]

Store(m) ==
    /\ state' = m.state
    /\ failures' = m.failures
    /\ successes' = m.successes
    /\ halfOpenCnt' = m.halfOpenCnt
    /\ openedAt' = m.openedAt

(* admitted: the step admitted a call while HalfOpen; success: the step    *)
(* recorded a classified success.                                          *)
Window(m, admitted, success) ==
    /\ winAdmits' = IF m.state = HalfOpen
                    THEN (IF state = HalfOpen THEN winAdmits ELSE 0)
                         + (IF admitted THEN 1 ELSE 0)
                    ELSE 0
    /\ winSucc' = IF m.state = HalfOpen
                  THEN (IF state = HalfOpen THEN winSucc ELSE 0)
                       + (IF success THEN 1 ELSE 0)
                  ELSE 0

(* fresh after a critical section that left the memory m *)
Fresh(m) == IF m.snaps = <<>> THEN fresh ELSE {}

(* lastTo: the state the latest onStateChange invocation reported as `to`; *)
(* Closed before the first one.                                            *)
Reported(m) == IF m.hooks = <<>> THEN lastTo ELSE m.hooks[Len(m.hooks)][4]

(* consec: the classified failures recorded in a row while Closed, counted *)
(* from a point where the circuit was Closed with no failure counted; -1   *)
(* while Closed with no such point known (a Reset that left failures       *)
(* counted); 0 outside Closed.                                             *)
StartPoint(m) == IF m.state = Closed /\ m.failures # 0 THEN -1 ELSE 0

----------------------------------------------------------------------------
Init0(configs) ==
    /\ cfg \in configs
    /\ now = 0
    /\ state = Closed
    /\ failures = 0
    /\ successes = 0
    /\ halfOpenCnt = 0
    /\ openedAt = 0
    /\ pc = [p \in AllCallers |-> "idle"]
    /\ locals = [p \in AllCallers |-> NoLocals]
    /\ mu = Free
    /\ ev = [op |-> "New", p |-> NoCaller, hooks |-> <<>>, snaps |-> <<>>, ret |-> nil]
    /\ fresh = {}
    /\ lastTo = Closed
    /\ consec = 0
    /\ winAdmits = 0
    /\ winSucc = 0

Init == Init0(Configs)
InitSeq == Init0(SeqConfigs)
InitDefault == Init0({DefaultConfig})
InitProbe == Init0(ProbeConfigs)
InitLoose == Init0(LooseConfigs)
InitLive == Init0(LiveConfigs)

(* Do, line 104: state, err := c.allow() *)
DoAllow(p) ==
    /\ pc[p] = "idle"
    /\ Locked("allow", p)
    /\ LET r == allow(Mem)
       IN  /\ Store(r.m)
           /\ pc' = [pc EXCEPT ![p] = IF r.err # nil THEN "rejected" ELSE "running"]
           /\ locals' = [locals EXCEPT ![p] = [NoLocals EXCEPT !.state = r.state,
                                                               !.err = r.err]]
           /\ ev' = [op |-> "allow", p |-> p, hooks |-> r.m.hooks,
                     snaps |-> r.m.snaps, ret |-> r.err]
           /\ Window(r.m, r.err = nil /\ r.state = HalfOpen, FALSE)
           /\ fresh' = Fresh(r.m) \cup (IF r.err = nil THEN {p} ELSE {})
           /\ lastTo' = Reported(r.m)
           /\ consec' = IF r.m.state = Closed THEN consec ELSE 0
    /\ UNCHANGED <<cfg, now>>

(* Do, lines 105-110: the call was rejected *)
DoReject(p) ==
    /\ pc[p] = "rejected"
    /\ pc' = [pc EXCEPT ![p] = "idle"]
    /\ locals' = [locals EXCEPT ![p] = NoLocals]
    /\ ev' = [op |-> "Do", p |-> p, hooks |-> DoRejectHooks, snaps |-> <<>>,
              ret |-> DoRejectResult(locals[p])]
    /\ UNCHANGED <<cfg, now, mu, circuit, history>>

(* Do, line 112: the caller's operation returns e *)
FnReturn(p, e) ==
    /\ pc[p] = "running"
    /\ pc' = [pc EXCEPT ![p] = "returned"]
    /\ locals' = [locals EXCEPT ![p].fnErr = e]
    /\ ev' = [op |-> "fn", p |-> p, hooks |-> <<>>, snaps |-> <<>>, ret |-> e]
    /\ fresh' = fresh \ {p}
    /\ UNCHANGED <<cfg, now, mu, circuit, consec, winAdmits, winSucc, lastTo>>

(* Do, line 114: c.record(fnErr) *)
DoRecord(p) ==
    /\ pc[p] = "returned"
    /\ Locked("record", p)
    /\ LET m == record(Mem, locals[p].fnErr)
           isFailure == condition(cfg.condition, locals[p].fnErr)
       IN  /\ Store(m)
           /\ ev' = [op |-> "record", p |-> p, hooks |-> m.hooks,
                     snaps |-> m.snaps, ret |-> nil]
           /\ Window(m, FALSE, ~isFailure)
           /\ fresh' = Fresh(m)
           /\ lastTo' = Reported(m)
           /\ consec' = IF state = Closed
                        THEN (IF isFailure
                              THEN (IF consec >= 0 THEN consec + 1 ELSE consec)
                              ELSE 0)
                        ELSE StartPoint(m)
    /\ pc' = [pc EXCEPT ![p] = "recorded"]
    /\ UNCHANGED <<cfg, now, locals>>

(* Do, lines 116-120: the onCall hook and the return *)
DoReturn(p) ==
    /\ pc[p] = "recorded"
    /\ pc' = [pc EXCEPT ![p] = "idle"]
    /\ locals' = [locals EXCEPT ![p] = NoLocals]
    /\ ev' = [op |-> "Do", p |-> p, hooks |-> DoCallHooks(locals[p]),
              snaps |-> <<>>, ret |-> DoResult(locals[p])]
    /\ UNCHANGED <<cfg, now, mu, circuit, history>>

(* Do, lines 105-110, in a goroutine that ends with the call: rejected *)
ProbeReject(p) ==
    /\ pc[p] = "rejected"
    /\ pc' = [pc EXCEPT ![p] = "done"]
    /\ ev' = [op |-> "Do", p |-> p, hooks |-> DoRejectHooks, snaps |-> <<>>,
              ret |-> DoRejectResult(locals[p])]
    /\ UNCHANGED <<cfg, now, mu, circuit, locals, history>>

(* Do, lines 116-120, in a goroutine that ends with the call *)
ProbeReturn(p) ==
    /\ pc[p] = "recorded"
    /\ pc' = [pc EXCEPT ![p] = "done"]
    /\ ev' = [op |-> "Do", p |-> p, hooks |-> DoCallHooks(locals[p]),
              snaps |-> <<>>, ret |-> DoResult(locals[p])]
    /\ UNCHANGED <<cfg, now, mu, circuit, locals, history>>

(* Run, lines 10-12: fn returns (v, e) inside the function handed to Do *)
RunFn(p, v, e) ==
    /\ pc[p] = "running"
    /\ pc' = [pc EXCEPT ![p] = "returned"]
    /\ locals' = [locals EXCEPT ![p].fnErr = e, ![p].result = v]
    /\ ev' = [op |-> "fn", p |-> p, hooks |-> <<>>, snaps |-> <<>>, ret |-> e]
    /\ fresh' = fresh \ {p}
    /\ UNCHANGED <<cfg, now, mu, circuit, consec, winAdmits, winSucc, lastTo>>

(* Run, line 14, after Do rejected the call *)
RunReject(p) ==
    /\ pc[p] = "rejected"
    /\ pc' = [pc EXCEPT ![p] = "idle"]
    /\ locals' = [locals EXCEPT ![p] = NoLocals]
    /\ ev' = [op |-> "Run", p |-> p, hooks |-> DoRejectHooks, snaps |-> <<>>,
              ret |-> <<locals[p].result, DoRejectResult(locals[p])>>]
    /\ UNCHANGED <<cfg, now, mu, circuit, history>>

(* Run, line 14, after Do returned the operation's error *)
RunReturn(p) ==
    /\ pc[p] = "recorded"
    /\ pc' = [pc EXCEPT ![p] = "idle"]
    /\ locals' = [locals EXCEPT ![p] = NoLocals]
    /\ ev' = [op |-> "Run", p |-> p, hooks |-> DoCallHooks(locals[p]),
              snaps |-> <<>>, ret |-> <<locals[p].result, DoResult(locals[p])>>]
    /\ UNCHANGED <<cfg, now, mu, circuit, history>>

(* c.State() *)
StateQuery ==
    /\ Locked("State", NoCaller)
    /\ LET m == currentState(Mem)
       IN  /\ Store(m)
           /\ ev' = [op |-> "State", p |-> NoCaller, hooks |-> m.hooks,
                     snaps |-> m.snaps, ret |-> m.state]
           /\ Window(m, FALSE, FALSE)
           /\ fresh' = Fresh(m)
           /\ lastTo' = Reported(m)
           /\ consec' = IF m.state = Closed THEN consec ELSE 0
    /\ UNCHANGED <<cfg, now, pc, locals>>

(* c.Reset() *)
DoReset ==
    /\ Locked("Reset", NoCaller)
    /\ LET m == Reset(Mem)
       IN  /\ Store(m)
           /\ ev' = [op |-> "Reset", p |-> NoCaller, hooks |-> m.hooks,
                     snaps |-> m.snaps, ret |-> nil]
           /\ Window(m, FALSE, FALSE)
           /\ fresh' = Fresh(m)
           /\ lastTo' = Reported(m)
           /\ consec' = StartPoint(m)
    /\ UNCHANGED <<cfg, now, pc, locals>>

(* Counts re-checking the state as State() does *)
CountsQuery_lazy ==
    /\ Locked("Counts", NoCaller)
    /\ LET m == currentState(Mem)
       IN  /\ Store(m)
           /\ ev' = [op |-> "Counts", p |-> NoCaller, hooks |-> m.hooks,
                     snaps |-> m.snaps, ret |-> Counts(m)]
           /\ Window(m, FALSE, FALSE)
           /\ fresh' = Fresh(m)
           /\ lastTo' = Reported(m)
           /\ consec' = IF m.state = Closed THEN consec ELSE 0
    /\ UNCHANGED <<cfg, now, pc, locals>>

(* c.Counts() *)
CountsQuery ==
    /\ Locked("Counts", NoCaller)
    /\ ev' = [op |-> "Counts", p |-> NoCaller, hooks |-> <<>>, snaps |-> <<>>,
              ret |-> Counts(Mem)]
    /\ UNCHANGED <<cfg, now, circuit, pc, locals, history>>

(* c.Name() *)
NameQuery ==
    /\ ev' = [op |-> "Name", p |-> NoCaller, hooks |-> <<>>, snaps |-> <<>>,
              ret |-> cfg.name]
    /\ UNCHANGED <<cfg, now, mu, circuit, pc, locals, history>>

(* fakeClock.Advance(d), d > 0, up to the instant limit *)
AdvanceUpTo(d, limit) ==
    /\ now + d <= limit
    /\ now' = now + d
    /\ ev' = [op |-> "Advance", p |-> NoCaller, hooks |-> <<>>, snaps |-> <<>>,
              ret |-> nil]
    /\ UNCHANGED <<cfg, mu, circuit, pc, locals, history>>

Advance(d) == AdvanceUpTo(d, MaxTime)

NextOver(P, E) ==
    \/ \E p \in P : DoAllow(p)
    \/ \E p \in P : DoReject(p)
    \/ \E p \in P : \E e \in E : FnReturn(p, e)
    \/ \E p \in P : DoRecord(p)
    \/ \E p \in P : DoReturn(p)
    \/ StateQuery
    \/ DoReset
    \/ CountsQuery
    \/ NameQuery
    \/ \E d \in 1..MaxDuration : Advance(d)

Next == NextOver(Callers, BasicErrors)
NextSeq == NextOver({"g1"}, AllErrors)

(* The circuit of New("name") with a fake clock advanced by the default    *)
(* open duration                                                           *)
NextDefault ==
    \/ \E p \in Callers : DoAllow(p)
    \/ \E p \in Callers : DoReject(p)
    \/ \E p \in Callers : \E e \in BasicErrors : FnReturn(p, e)
    \/ \E p \in Callers : DoRecord(p)
    \/ \E p \in Callers : DoReturn(p)
    \/ StateQuery
    \/ DoReset
    \/ CountsQuery
    \/ AdvanceUpTo(DefaultOpenDuration, MaxTime * DefaultOpenDuration)

(* The five calls start on a circuit that was tripped and has become       *)
(* HalfOpen with no probe admitted yet, while no other call is under way.  *)
Started == \E p \in Probers : pc[p] # "idle"
Ready ==
    /\ state = HalfOpen /\ halfOpenCnt = 0 /\ successes = 0
    /\ pc["g1"] = "idle"

(* One goroutine trips the circuit and brings it to HalfOpen; from then on *)
(* the clock stands still and the five calls run concurrently.             *)
NextProbe ==
    \/ ~Started /\ DoAllow("g1")
    \/ ~Started /\ DoReject("g1")
    \/ ~Started /\ \E e \in BasicErrors : FnReturn("g1", e)
    \/ ~Started /\ DoRecord("g1")
    \/ ~Started /\ DoReturn("g1")
    \/ ~Started /\ DoReset
    \/ ~Started /\ \E d \in 1..MaxDuration : Advance(d)
    \/ StateQuery
    \/ CountsQuery
    \/ \E p \in Probers : (Started \/ Ready) /\ DoAllow(p)
    \/ \E p \in Probers : \E e \in BasicErrors : FnReturn(p, e)
    \/ \E p \in Probers : DoRecord(p)
    \/ \E p \in Probers : ProbeReject(p)
    \/ \E p \in Probers : ProbeReturn(p)

(* Calls made through Run, one at a time *)
NextRun ==
    \/ DoAllow("g1")
    \/ RunReject("g1")
    \/ \E v \in Values : \E e \in AllErrors : RunFn("g1", v, e)
    \/ DoRecord("g1")
    \/ RunReturn("g1")
    \/ StateQuery
    \/ DoReset
    \/ CountsQuery
    \/ \E d \in 1..MaxDuration : Advance(d)

(* The clock moves on while the circuit waits for the open period to end *)
Tick ==
    /\ state = Open /\ now - openedAt < cfg.openDuration
    /\ AdvanceUpTo(1, openedAt + cfg.openDuration)

(* Callers that keep calling Do, operations that return, and succeed from  *)
(* HealTime on; no Reset().                                                *)
NextLive ==
    \/ \E p \in Callers : DoAllow(p)
    \/ \E p \in Callers : DoReject(p)
    \/ \E p \in Callers : \E e \in BasicErrors :
          (e = nil \/ now < HealTime) /\ FnReturn(p, e)
    \/ \E p \in Callers : DoRecord(p)
    \/ \E p \in Callers : DoReturn(p)
    \/ StateQuery
    \/ AdvanceUpTo(1, HealTime)
    \/ Tick

Fairness ==
    /\ \A p \in Callers :
          /\ WF_vars(DoAllow(p))
          /\ WF_vars(DoReject(p))
          /\ WF_vars(\E e \in BasicErrors :
                        (e = nil \/ now < HealTime) /\ FnReturn(p, e))
          /\ WF_vars(DoRecord(p))
          /\ WF_vars(DoReturn(p))
    /\ WF_vars(Tick)

(* Spec: concurrent callers.  SpecSeq: one caller at a time, every kind of *)
(* error and condition.  SpecDefault: concurrent callers, the default      *)
(* configuration.                                                          *)
Spec == Init /\ [][Next]_vars
SpecSeq == InitSeq /\ [][NextSeq]_vars
SpecDefault == InitDefault /\ [][NextDefault]_vars
SpecProbe == InitProbe /\ [][NextProbe]_vars
SpecRun == Init /\ [][NextRun]_vars
(* SpecLoose: concurrent callers, thresholds and open durations of 1 and   *)
(* below.                                                                  *)
SpecLoose == InitLoose /\ [][Next]_vars
(* SpecLive: concurrent callers under the fairness the recovery assumes.   *)
SpecLive == InitLive /\ [][NextLive]_vars /\ Fairness

----------------------------------------------------------------------------
(* Properties *)

(* The halfOpenCnt an admission check sees after its lazy re-check: the    *)
(* counter of the running window, or 0 when the check opens the window.    *)
SeenCnt == IF state = HalfOpen THEN halfOpenCnt ELSE 0

(* C1 - admission safety: an admission check that finds Open, or HalfOpen  *)
(* with halfOpenCnt >= halfOpenRequests, rejects: the call returns ErrOpen *)
(* without invoking the operation.  The operation is invoked only by calls *)
(* whose check found Closed or HalfOpen below the limit.                   *)
AdmissionSafety ==
    [][\A p \in Callers :
        /\ (ev'.op = "allow" /\ ev'.p = p) =>
              LET tripped == \/ state' = Open
                             \/ /\ state' = HalfOpen
                                /\ SeenCnt >= cfg.halfOpenRequests
              IN  /\ tripped => pc'[p] = "rejected" /\ locals'[p].err = ErrOpen
                  /\ pc'[p] = "running" => ~tripped /\ state' \in {Closed, HalfOpen}
                  /\ pc'[p] \in {"rejected", "running"}
        /\ (pc[p] = "rejected" /\ pc'[p] # "rejected") =>
              pc'[p] = "idle" /\ ev'.op = "Do" /\ ev'.ret = ErrOpen
        /\ (pc'[p] = "running" /\ pc[p] # "running") =>
              pc[p] = "idle" /\ ev'.op = "allow" /\ ev'.p = p
        /\ (pc'[p] = "returned" /\ pc[p] # "returned") => pc[p] = "running"
      ]_vars

AdmissionSafetyWitness ==
    /\ ev.op = "Do" /\ ev.ret = ErrOpen /\ ev.hooks = <<RejectHook>>
    /\ state = HalfOpen /\ halfOpenCnt = cfg.halfOpenRequests
    /\ cfg.halfOpenRequests = 1

(* C2 - threshold exactness, failureThreshold = N: after k < N classified  *)
(* failures in a row the circuit is Closed with failures = k, the N-th     *)
(* trips it, and a classified success sets failures back to 0.             *)
ThresholdExactness ==
    LET N == cfg.failureThreshold
    IN  consec >= 0 =>
          /\ (consec < N /\ state = Closed) => failures = consec
          /\ (0 < consec /\ consec < N) => state = Closed
          /\ consec >= N => consec = N /\ state = Open

ThresholdExactnessWitness ==
    /\ ev.op = "record" /\ state = Open
    /\ consec = cfg.failureThreshold /\ cfg.failureThreshold = MaxThreshold

ProbationLimit ==
    /\ 0 <= halfOpenCnt /\ halfOpenCnt <= cfg.halfOpenRequests
    /\ winAdmits <= cfg.halfOpenRequests
    /\ (ev.op = "allow" /\ state = HalfOpen /\ locals[ev.p].state = HalfOpen
        /\ pc[ev.p] = "rejected") =>
          winAdmits = cfg.halfOpenRequests /\ locals[ev.p].err = ErrOpen

ProbationLimitWitness ==
    /\ ev.op = "allow" /\ pc[ev.p] = "rejected" /\ state = HalfOpen
    /\ winAdmits = cfg.halfOpenRequests /\ cfg.halfOpenRequests = MaxThreshold

(* C5 - probation closing, successThreshold = M: a HalfOpen window stays   *)
(* HalfOpen after fewer than M classified successes of its probes and      *)
(* becomes Closed at the M-th; one classified failure of a probe moves the *)
(* circuit to Open with failures = successes = halfOpenCnt = 0.            *)
ProbationClosing ==
    [][/\ state' = HalfOpen => winSucc' < cfg.successThreshold /\ successes' = winSucc'
       /\ (ev'.op = "record" /\ state = HalfOpen /\ locals[ev'.p].state = HalfOpen) =>
            IF condition(cfg.condition, locals[ev'.p].fnErr)
            THEN /\ state' = Open
                 /\ failures' = 0 /\ successes' = 0 /\ halfOpenCnt' = 0
            ELSE IF winSucc + 1 >= cfg.successThreshold
                 THEN state' = Closed
                 ELSE state' = HalfOpen /\ winSucc' = winSucc + 1
      ]_vars

ProbationClosingWitness ==
    /\ ev.op = "record" /\ state = Closed
    /\ ev.hooks = <<StateChangeHook(HalfOpen, Closed)>>
    /\ cfg.successThreshold = MaxThreshold

(* C6 - Reset is unconditional: right after Reset() the circuit is Closed  *)
(* with failures = successes = halfOpenCnt = 0 and Counts() = (0, 0).      *)
ResetUnconditional ==
    ev.op = "Reset" =>
      /\ state = Closed
      /\ failures = 0 /\ successes = 0 /\ halfOpenCnt = 0
      /\ Counts(Mem) = <<0, 0>>

(* C7 - Reset and the state-change hook: Reset() while Open or HalfOpen    *)
(* fires onStateChange once, with (prior state, Closed); Reset() while     *)
(* Closed fires nothing; a Reset() right after a Reset() fires nothing and *)
(* changes nothing.                                                        *)
ResetHook ==
    [][ev'.op = "Reset" =>
        /\ state \in {Open, HalfOpen} =>
              ev'.hooks = <<StateChangeHook(state, Closed)>> /\ state' = Closed
        /\ state = Closed => ev'.hooks = <<>> /\ UNCHANGED circuit
        /\ ev.op = "Reset" => ev'.hooks = <<>> /\ UNCHANGED circuit
      ]_vars

ResetHookWitness ==
    /\ ev.op = "Reset" /\ state = Closed
    /\ ev.hooks = <<StateChangeHook(HalfOpen, Closed)>>

(* C8 - return value of Do: an admitted call returns the error its         *)
(* operation returned, whatever the condition makes of it; a rejected call *)
(* returns ErrOpen.                                                        *)
DoReturnValue ==
    [][\A p \in Callers :
        /\ (ev'.op = "fn" /\ ev'.p = p) => locals'[p].fnErr = ev'.ret
        /\ pc[p] = "returned" => locals'[p].fnErr = locals[p].fnErr
        /\ (ev'.op = "Do" /\ ev'.p = p /\ pc[p] = "recorded") =>
              ev'.ret = locals[p].fnErr
        /\ (ev'.op = "Do" /\ ev'.p = p /\ pc[p] = "rejected") =>
              ev'.ret = ErrOpen
      ]_vars

DoReturnValueWitness ==
    /\ ev.op = "Do" /\ ev.ret = errPermanent
    /\ ev.hooks = <<CallHook(Closed, errPermanent)>>
    /\ cfg.condition = If(isErr(errTest))

(* C9 - rejection is distinguishable: IsOpen(result of Do) exactly when    *)
(* the circuit rejected the call.                                          *)
RejectionDistinguishable ==
    [][ev'.op = "Do" => (IsOpen(ev'.ret) <=> pc[ev'.p] = "rejected")]_vars

IsPerCallHook(h) == h[1] \in {"onCall", "onReject"}

(* C10 - per-call hooks: a rejected call fires onReject(name) once and no  *)
(* onCall; an admitted call fires onCall(name, s, e) once and no onReject, *)
(* s being the state its admission check observed and e the error of its   *)
(* operation.                                                              *)
PerCallHooks ==
    [][\A p \in Callers :
        /\ (ev'.op = "allow" /\ ev'.p = p) => locals'[p].state = state'
        /\ pc[p] \in {"running", "returned"} => locals'[p].state = locals[p].state
        /\ (ev'.op = "Do" /\ ev'.p = p /\ pc[p] = "rejected") =>
              ev'.hooks = <<RejectHook>>
        /\ (ev'.op = "Do" /\ ev'.p = p /\ pc[p] = "recorded") =>
              ev'.hooks = <<CallHook(locals[p].state, locals[p].fnErr)>>
        /\ ev'.op \in {"allow", "fn", "record"} =>
              \A i \in 1..Len(ev'.hooks) : ~IsPerCallHook(ev'.hooks[i])
      ]_vars

PerCallHooksWitness ==
    /\ ev.op = "Do" /\ state = Open
    /\ ev.hooks = <<CallHook(Closed, errTest)>>

(* The onStateChange invocations of a step, in order *)
StateChanges(hooks) == SelectSeq(hooks, LAMBDA h : h[1] = "onStateChange")

(* The invocations report a chain of changes leading from s to t *)
IsChain(h, s, t) ==
    /\ h = <<>> => s = t
    /\ h # <<>> => h[1][3] = s /\ h[Len(h)][4] = t
    /\ \A i \in 1..Len(h) :
          /\ h[i][3] # h[i][4]
          /\ i > 1 => h[i][3] = h[i - 1][4]

(* C11 - state-change hook accounting: the onStateChange invocations of a  *)
(* step are, in order, the changes the stored state goes through in that   *)
(* step, one invocation per change, each with from # to; a step that       *)
(* leaves the state as it was, without passing through another one, fires  *)
(* none.                                                                   *)
StateChangeAccounting ==
    [][LET h == StateChanges(ev'.hooks)
       IN  /\ IsChain(h, state, state')
           /\ Len(h) = Len(ev'.snaps)
           /\ \A i \in 1..Len(h) : ev'.snaps[i][1] = h[i][4]
           /\ ev'.op \in {"fn", "Do", "Counts", "Advance"} => h = <<>>
      ]_vars

StateChangeAccountingWitness ==
    /\ ev.op = "record" /\ state = Open
    /\ ev.hooks = <<StateChangeHook(Open, HalfOpen), StateChangeHook(HalfOpen, Open)>>

Edges == {<<Closed, Open>>, <<Open, HalfOpen>>, <<HalfOpen, Closed>>,
          <<HalfOpen, Open>>, <<Open, Closed>>}

(* C12 - allowed transition edges: every change of state is Closed->Open,  *)
(* Open->HalfOpen, HalfOpen->Closed, HalfOpen->Open or Open->Closed, the   *)
(* last one in Reset() only; Closed->HalfOpen never happens.               *)
AllowedEdges ==
    [][LET h == StateChanges(ev'.hooks)
       IN  /\ state' # state => h # <<>>
           /\ h # <<>> => h[1][3] = state /\ h[Len(h)][4] = state'
           /\ \A i \in 1..Len(h) :
                 /\ <<h[i][3], h[i][4]>> \in Edges
                 /\ <<h[i][3], h[i][4]>> = <<Open, Closed>> => ev'.op = "Reset"
      ]_vars

AllowedEdgesWitness ==
    /\ ev.op = "Reset" /\ state = Closed
    /\ ev.hooks = <<StateChangeHook(Open, Closed)>>

(* C13 - counter/state invariant: the counters are never negative; Closed  *)
(* has successes = halfOpenCnt = 0, Open has all three 0, HalfOpen has     *)
(* failures = 0; every change of state leaves the three counters at 0.     *)
CounterStateInvariant ==
    /\ failures >= 0 /\ successes >= 0 /\ halfOpenCnt >= 0
    /\ state = Closed => successes = 0 /\ halfOpenCnt = 0
    /\ state = Open => failures = 0 /\ successes = 0 /\ halfOpenCnt = 0
    /\ state = HalfOpen => failures = 0
    /\ \A i \in 1..Len(ev.snaps) :
          ev.snaps[i][2] = 0 /\ ev.snaps[i][3] = 0 /\ ev.snaps[i][4] = 0

CounterStateInvariantWitness ==
    /\ ev.op = "record" /\ state = Open
    /\ ev.hooks = <<StateChangeHook(HalfOpen, Open)>>
    /\ cfg.successThreshold = MaxThreshold /\ cfg.halfOpenRequests = MaxThreshold
    /\ \E p \in Callers : pc[p] = "running" /\ locals[p].state = HalfOpen

(* The callers whose operation is in flight *)
InFlight == {p \in Callers : pc[p] = "running"}

(* C16 as stated - no operation is in flight while the circuit is Open,    *)
(* and at most halfOpenRequests operations are in flight while HalfOpen.   *)
NoOperationWhileTripped ==
    /\ state = Open => InFlight = {}
    /\ state = HalfOpen => Cardinality(InFlight) <= cfg.halfOpenRequests

(* C16 amended - no operation in flight while the circuit is Open was      *)
(* admitted since the circuit opened (all of them were admitted before the *)
(* change to Open), and while HalfOpen at most halfOpenRequests of the     *)
(* operations in flight were admitted since the circuit became HalfOpen.   *)
NoAdmissionWhileTripped ==
    /\ fresh \subseteq InFlight
    /\ state = Open => fresh = {}
    /\ state = HalfOpen => Cardinality(fresh) <= cfg.halfOpenRequests

NoAdmissionWhileTrippedWitness ==
    /\ state = Open /\ InFlight # {} /\ fresh = {}
    /\ ev.op = "allow" /\ ev.ret = ErrOpen

(* C17 - the operation executes outside the lock: while an operation is in *)
(* flight the mutex is free, so State(), Counts(), Reset() and the         *)
(* admission check of every idle caller can take their step at once.       *)
OperationOutsideLock ==
    InFlight # {} =>
        /\ mu = Free
        /\ ENABLED StateQuery
        /\ ENABLED CountsQuery
        /\ ENABLED DoReset
        /\ \A q \in Callers : pc[q] = "idle" => ENABLED DoAllow(q)
        /\ \A q \in Callers : pc[q] = "returned" => ENABLED DoRecord(q)

OperationOutsideLockWitness ==
    /\ InFlight # {}
    /\ ev.op = "allow" /\ ev.p \notin InFlight /\ ev.ret = ErrOpen
    /\ state = HalfOpen

(* C18 - custom condition If(p), p matching errTest only: while Closed an  *)
(* outcome that does not match leaves the circuit Closed with failures 0,  *)
(* a matching one counts, and failureThreshold matching outcomes in a row  *)
(* open the circuit.                                                       *)
CustomCondition ==
    [][(cfg.condition = If(isErr(errTest)) /\ ev'.op = "record" /\ state = Closed) =>
         LET e == locals[ev'.p].fnErr
             n == failures + 1
         IN  /\ ~errorsIs(e, errTest) =>
                   state' = Closed /\ failures' = 0 /\ consec' = 0
             /\ errorsIs(e, errTest) /\ n < cfg.failureThreshold =>
                   state' = Closed /\ failures' = n
             /\ errorsIs(e, errTest) /\ n >= cfg.failureThreshold => state' = Open
             /\ consec >= 0 =>
                   (state' = Open <=>
                       errorsIs(e, errTest) /\ consec + 1 = cfg.failureThreshold)
      ]_vars

CustomConditionWitness ==
    /\ cfg.condition = If(isErr(errTest)) /\ cfg.failureThreshold = MaxThreshold
    /\ ev.op = "record" /\ state = Closed /\ failures = 0
    /\ locals[ev.p].fnErr = errPermanent

Predicates == {defaultCondition, isErr(errTest), isErr(errPermanent)}

Stuck ==
    /\ state = HalfOpen
    /\ halfOpenCnt >= cfg.halfOpenRequests
    /\ \A p \in Callers : pc[p] \notin {"running", "returned"}

(* Once Stuck the circuit stays Stuck until Reset(), whatever Do calls are *)
(* made and however far the clock advances.                                *)
StuckForever ==
    [][(Stuck /\ ev'.op # "Reset") =>
          /\ Stuck' /\ circuit' = circuit
          /\ ev'.op = "allow" => ev'.ret = ErrOpen
      ]_vars

(* C14 - no terminal state: under the default configuration the circuit    *)
(* never reaches a state from which every later Do is rejected and no Do   *)
(* call or clock advance brings it back to Closed.                         *)
NoTerminalState == ~Stuck

(* The probers whose operation was invoked, and those Do rejected *)
Invoked ==
    {p \in Probers :
        \/ pc[p] \in {"running", "returned", "recorded"}
        \/ pc[p] = "done" /\ locals[p].err = nil}
Refused == {p \in Probers : pc[p] = "done" /\ IsOpen(locals[p].err)}

(* C15 - concurrent probe scenario: with failureThreshold 1,               *)
(* halfOpenRequests 1 and the default successThreshold, five concurrent Do *)
(* calls on the HalfOpen circuit invoke the operation exactly once and the *)
(* other four return ErrOpen, in every interleaving and whatever the probe *)
(* returns.                                                                *)
ConcurrentProbes ==
    /\ Cardinality(Invoked) <= 1
    /\ \A p \in Refused : locals[p].err = ErrOpen /\ locals[p].fnErr = nil
    /\ (\A p \in Probers : pc[p] = "done") =>
          /\ Cardinality(Invoked) = 1
          /\ Cardinality(Refused) = Cardinality(Probers) - 1

ConcurrentProbesWitness ==
    /\ \A p \in Probers : pc[p] = "done"
    /\ state = Open
    /\ \E p \in Invoked : locals[p].fnErr = errTest

(* What Run returns: fn's value as it is, with the error Do returned *)
RunResult ==
    [][ev'.op = "Run" =>
          LET l == locals[ev'.p]
          IN  ev'.ret = IF l.err # nil
                        THEN <<Zero, ErrOpen>>
                        ELSE <<l.result, l.fnErr>>
      ]_vars

(* C20 - Run wrapper: Run returns (v, nil) when fn returned (v, nil),      *)
(* (zero value, ErrOpen) when the call was rejected, and (zero value, e)   *)
(* when fn returned (v, e) with e # nil, for every v.                      *)
RunReturnValue ==
    [][ev'.op = "Run" =>
          LET l == locals[ev'.p]
          IN  ev'.ret = IF l.err # nil
                        THEN <<Zero, ErrOpen>>
                        ELSE IF l.fnErr = nil
                             THEN <<l.result, nil>>
                             ELSE <<Zero, l.fnErr>>
      ]_vars

(* The open duration has run out on an Open circuit: the next re-check of  *)
(* the state makes it HalfOpen.                                            *)
Due == state = Open /\ now - openedAt >= cfg.openDuration

(* C21 - outcomes are recorded against the state at completion: record     *)
(* first re-derives the state (Open becomes HalfOpen when the open         *)
(* duration has run out) and applies that state's rule to the outcome,     *)
(* whatever the state was when the call was admitted.                      *)
RecordedAtCompletion ==
    [][ev'.op = "record" =>
          LET e == locals[ev'.p].fnErr
              s == IF Due THEN HalfOpen ELSE state
              n == IF Due THEN 1 ELSE successes + 1
          IN  /\ Due => ev'.hooks # <<>>
                        /\ Head(ev'.hooks) = StateChangeHook(Open, HalfOpen)
              /\ (s = HalfOpen /\ e # nil) =>
                    /\ state' = Open /\ openedAt' = now
                    /\ ev'.hooks[Len(ev'.hooks)] = StateChangeHook(HalfOpen, Open)
              /\ (s = HalfOpen /\ e = nil /\ n >= cfg.successThreshold) =>
                    /\ state' = Closed
                    /\ ev'.hooks[Len(ev'.hooks)] = StateChangeHook(HalfOpen, Closed)
              /\ (s = HalfOpen /\ e = nil /\ n < cfg.successThreshold) =>
                    state' = HalfOpen /\ successes' = n
              /\ (s = Closed /\ e # nil /\ failures + 1 >= cfg.failureThreshold) =>
                    state' = Open
              /\ (s = Closed /\ e # nil /\ failures + 1 < cfg.failureThreshold) =>
                    state' = Closed /\ failures' = failures + 1
              /\ (s = Closed /\ e = nil) => state' = Closed /\ failures' = 0
              /\ s = Open => circuit' = circuit
      ]_vars

RecordedAtCompletionWitness ==
    /\ ev.op = "record" /\ locals[ev.p].state = Closed
    /\ locals[ev.p].fnErr = errTest
    /\ ev.hooks = <<StateChangeHook(HalfOpen, Open)>>

(* C22 - probe successes come only from admitted probes: while HalfOpen,   *)
(* successes <= halfOpenCnt.                                               *)
ProbeSuccessesAdmitted == state = HalfOpen => successes <= halfOpenCnt

(* C23 - late outcomes while tripped are discarded: recording an outcome   *)
(* while the circuit is Open and the open duration has not run out leaves  *)
(* the state, the counters and openedAt as they are and fires no hook.     *)
LateOutcomeDiscarded ==
    [][(ev'.op = "record" /\ state = Open /\ now - openedAt < cfg.openDuration) =>
          /\ circuit' = circuit
          /\ ev'.hooks = <<>> /\ ev'.snaps = <<>>
      ]_vars

LateOutcomeDiscardedWitness ==
    /\ ev.op = "record" /\ state = Open /\ ev.hooks = <<>>
    /\ locals[ev.p].fnErr = errTest /\ locals[ev.p].state = Closed
    /\ openedAt < now

(* C24 - a rejected call changes nothing: an admission check that rejects  *)
(* in HalfOpen, or in Open before the open duration has run out, leaves    *)
(* the state, the counters and openedAt as they are, and the rest of the   *)
(* rejected Do fires onReject only and changes nothing.                    *)
RejectionFrame ==
    [][/\ (/\ ev'.op = "allow" /\ ev'.ret # nil
           /\ state = HalfOpen \/ (state = Open /\ now - openedAt < cfg.openDuration)) =>
             /\ circuit' = circuit
             /\ ev'.hooks = <<>>
             /\ pc'[ev'.p] = "rejected"
       /\ (ev'.op = "Do" /\ pc[ev'.p] = "rejected") =>
             /\ circuit' = circuit
             /\ ev'.hooks = <<RejectHook>>
             /\ ev'.ret = ErrOpen
             /\ locals[ev'.p].fnErr = nil
      ]_vars

RejectionFrameWitness ==
    /\ ev.op = "Do" /\ ev.hooks = <<RejectHook>>
    /\ state = HalfOpen /\ successes = 1 /\ halfOpenCnt = 1

(* C25 - introspection frame: Counts() and Name() change nothing and fire  *)
(* no hook, even when the open duration has run out; State() leaves the    *)
(* counters and openedAt alone and changes the state only from Open to     *)
(* HalfOpen when the open duration has run out, firing                     *)
(* onStateChange(Open, HalfOpen) once for it and nothing on later queries. *)
IntrospectionFrame ==
    [][/\ ev'.op = "Counts" =>
             /\ circuit' = circuit /\ ev'.hooks = <<>>
             /\ ev'.ret = <<failures, successes>>
       /\ ev'.op = "Name" =>
             /\ circuit' = circuit /\ ev'.hooks = <<>>
             /\ ev'.ret = cfg.name
       /\ ev'.op = "State" =>
             /\ UNCHANGED <<failures, successes, halfOpenCnt, openedAt>>
             /\ ev'.ret = state'
             /\ Due => /\ state' = HalfOpen
                       /\ ev'.hooks = <<StateChangeHook(Open, HalfOpen)>>
             /\ ~Due => state' = state /\ ev'.hooks = <<>>
      ]_vars

IntrospectionFrameWitness ==
    /\ ev.op = "Counts" /\ Due
    /\ ev.ret = <<0, 0>>

(* C26 - lazy transition on a call: with halfOpenRequests >= 1, the        *)
(* admission check of a Do made when the open duration has run out changes *)
(* Open to HalfOpen, fires onStateChange(Open, HalfOpen) before the        *)
(* operation runs, admits the call as the first probe (halfOpenCnt = 1)    *)
(* and hands Do the state HalfOpen, which is what its onCall reports.      *)
LazyTransitionOnCall ==
    [][/\ (ev'.op = "allow" /\ Due /\ cfg.halfOpenRequests >= 1) =>
             /\ state' = HalfOpen /\ halfOpenCnt' = 1
             /\ ev'.hooks = <<StateChangeHook(Open, HalfOpen)>>
             /\ ev'.ret = nil
             /\ pc[ev'.p] = "idle" /\ pc'[ev'.p] = "running"
             /\ locals'[ev'.p].state = HalfOpen
       /\ \A p \in Callers :
             (pc[p] \in {"running", "returned"}) =>
                 locals'[p].state = locals[p].state
       /\ (ev'.op = "Do" /\ pc[ev'.p] = "recorded") =>
             ev'.hooks = <<CallHook(locals[ev'.p].state, locals[ev'.p].fnErr)>>
      ]_vars

LazyTransitionOnCallWitness ==
    /\ ev.op = "allow" /\ ev.ret = nil
    /\ ev.hooks = <<StateChangeHook(Open, HalfOpen)>>
    /\ state = HalfOpen /\ halfOpenCnt = 1
    /\ pc[ev.p] = "running" /\ locals[ev.p].state = HalfOpen

(* C27 - the open period is re-armed on every entry into Open: openedAt is *)
(* set to the instant at which the outcome that opens the circuit is       *)
(* recorded, on Closed->Open and on HalfOpen->Open, and nothing else       *)
(* changes it; until the clock reaches openedAt + openDuration every Do is *)
(* rejected.                                                               *)
OpenPeriodRearmed ==
    [][/\ openedAt' # openedAt =>
             ev'.op = "record" /\ state' = Open /\ openedAt' = now
       /\ \A i \in 1..Len(ev'.snaps) :
             ev'.snaps[i][1] = Open =>
                 /\ ev'.op = "record"
                 /\ ev'.snaps[i][5] = now
                 /\ ev'.hooks[i][3] \in {Closed, HalfOpen}
                 /\ openedAt' = now
       /\ (ev'.op = "allow" /\ state = Open /\ now < openedAt + cfg.openDuration) =>
             ev'.ret = ErrOpen /\ state' = Open /\ openedAt' = openedAt
      ]_vars

OpenPeriodRearmedWitness ==
    /\ ev.op = "record" /\ state = Open
    /\ ev.hooks = <<StateChangeHook(HalfOpen, Open)>>
    /\ locals[ev.p].state = HalfOpen
    /\ openedAt = now /\ now = MaxTime

(* C28 - hook ordering within a call: each onStateChange invocation finds  *)
(* the new state, the zeroed counters and, for Open, openedAt already      *)
(* stored; the onCall hook of a call fires after the call's outcome was    *)
(* recorded, hence after the state change and the onStateChange            *)
(* invocations that outcome caused.                                        *)
HookOrdering ==
    [][/\ ev'.op \in {"allow", "record", "State", "Reset"} =>
             /\ Len(ev'.snaps) = Len(ev'.hooks)
             /\ \A i \in 1..Len(ev'.hooks) :
                   /\ ev'.snaps[i][1] = ev'.hooks[i][4]
                   /\ ev'.snaps[i][2] = 0 /\ ev'.snaps[i][3] = 0
                   /\ ev'.snaps[i][4] = 0
                   /\ ev'.hooks[i][4] = Open => ev'.snaps[i][5] = now
       /\ \A i \in 1..Len(ev'.hooks) :
             ev'.hooks[i][1] = "onCall" =>
                 /\ ev'.op = "Do" /\ pc[ev'.p] = "recorded"
                 /\ pc'[ev'.p] = "idle"
       /\ ev'.op = "record" => pc[ev'.p] = "returned" /\ pc'[ev'.p] = "recorded"
      ]_vars

HookOrderingWitness ==
    /\ ev.op = "Do" /\ ev.hooks = <<CallHook(Closed, errTest)>>
    /\ state = Open /\ openedAt = now /\ now > 0
    /\ \A p \in Callers : pc[p] = "idle"

(* C29 - state-change hooks form a chain under concurrency: the first      *)
(* onStateChange invocation has from = Closed and every later one has from *)
(* equal to the to of the invocation before it, whichever caller made it;  *)
(* no change of state goes unreported.                                     *)
HookChain ==
    [][LET h == StateChanges(ev'.hooks)
       IN  /\ \A i \in 1..Len(h) :
                 /\ h[i][3] = IF i = 1 THEN lastTo ELSE h[i - 1][4]
                 /\ h[i][3] # h[i][4]
           /\ lastTo' = state'
      ]_vars

HookChainWitness ==
    /\ ev.op = "State" /\ ev.hooks = <<StateChangeHook(Open, HalfOpen)>>
    /\ lastTo = HalfOpen
    /\ \E p \in Callers : pc[p] = "returned" /\ locals[p].state = Closed

(* onCall and onReject are invoked by Do after allow and record returned:  *)
(* the mutex is free.                                                      *)
CallHooksOutsideLock ==
    [][(ev'.op = "Do" /\ ev'.hooks # <<>>) => mu = Free /\ mu' = Free]_vars

(* C30 - hooks run with the lock released: at every hook invocation        *)
(* (onStateChange, onCall, onReject) the mutex is free, so a hook may call *)
(* State(), Counts(), Reset() or Do() on the circuit.                      *)
HooksOutsideLock ==
    [][/\ \A i \in 1..Len(ev'.snaps) : ev'.snaps[i][6] = Free
       /\ (ev'.op = "Do" /\ ev'.hooks # <<>>) => mu = Free
      ]_vars

(* C31 - counters stay strictly below their thresholds: with thresholds of *)
(* at least 1, between critical sections Closed has failures below         *)
(* failureThreshold and HalfOpen has successes below successThreshold.     *)
CountersBelowThresholds ==
    (cfg.failureThreshold >= 1 /\ cfg.successThreshold >= 1) =>
        /\ state = Closed => failures < cfg.failureThreshold
        /\ state = HalfOpen => successes < cfg.successThreshold

CountersBelowThresholdsWitness ==
    /\ cfg.failureThreshold = MaxThreshold /\ state = Closed
    /\ failures = cfg.failureThreshold - 1
    /\ ev.op = "record" /\ locals[ev.p].fnErr = errTest

(* An outcome recorded right after Reset() is handled by the rule of       *)
(* Closed on the failures Reset() left.                                    *)
ResetRaceRecorded ==
    [][(ev.op = "Reset" /\ ev'.op = "record") =>
          LET e == locals[ev'.p].fnErr
          IN  /\ (e # nil /\ failures + 1 >= cfg.failureThreshold) => state' = Open
              /\ (e # nil /\ failures + 1 < cfg.failureThreshold) =>
                    state' = Closed /\ failures' = failures + 1
              /\ e = nil => state' = Closed /\ failures' = 0
      ]_vars

(* C32 - Reset racing with a call in flight: the outcome of a call         *)
(* admitted before Reset() and recorded after it is handled by the rule of *)
(* Closed starting from failures = 0: a failure makes failures 1 (and      *)
(* opens the circuit when failureThreshold is 1), a success leaves         *)
(* failures at 0.                                                          *)
ResetRace ==
    [][(ev.op = "Reset" /\ ev'.op = "record") =>
          LET e == locals[ev'.p].fnErr
          IN  /\ (e # nil /\ cfg.failureThreshold = 1) => state' = Open
              /\ (e # nil /\ cfg.failureThreshold > 1) =>
                    state' = Closed /\ failures' = 1
              /\ e = nil => state' = Closed /\ failures' = 0
      ]_vars

(* C33 - successful calls under IfNot: with IfNot(p), p matching           *)
(* errPermanent only, an operation that returns nil is not a failure: it   *)
(* leaves a Closed circuit Closed with failures = 0 and counts as a        *)
(* success of a probe in HalfOpen.                                         *)
IfNotSuccess ==
    [][(/\ cfg.condition = IfNot(isErr(errPermanent))
        /\ ev'.op = "record" /\ locals[ev'.p].fnErr = nil) =>
          /\ (state = Closed) => state' = Closed /\ failures' = 0
          /\ (state = HalfOpen \/ Due) => state' # Open
      ]_vars

(* C34 - unvalidated thresholds: a circuit with failureThreshold <= 0 does *)
(* what one with failureThreshold = 1 does (the first classified failure   *)
(* in Closed opens it, a success never does, failures is 0 whenever it is  *)
(* Closed), and one with successThreshold <= 0 does what one with          *)
(* successThreshold = 1 does (the first classified probe success closes    *)
(* it, and nothing but a recorded success or Reset() closes it).           *)
UnvalidatedThresholds ==
    [][LET e == locals[ev'.p].fnErr
           s == IF Due THEN HalfOpen ELSE state
           last == ev'.hooks[Len(ev'.hooks)]
       IN  /\ cfg.failureThreshold <= 1 =>
                 /\ state' = Closed => failures' = 0
                 /\ (ev'.op = "record" /\ s = Closed /\ e # nil) =>
                       /\ state' = Open /\ openedAt' = now
                       /\ failures' = 0 /\ successes' = 0 /\ halfOpenCnt' = 0
                       /\ ev'.hooks = <<StateChangeHook(Closed, Open)>>
                 /\ (ev'.op = "record" /\ s = Closed /\ e = nil) =>
                       circuit' = circuit /\ ev'.hooks = <<>>
                 /\ (state = Closed /\ state' # Closed) =>
                       ev'.op = "record" /\ e # nil
           /\ cfg.successThreshold <= 1 =>
                 /\ state' = HalfOpen => successes' = 0
                 /\ (ev'.op = "record" /\ s = HalfOpen /\ e = nil) =>
                       /\ state' = Closed
                       /\ failures' = 0 /\ successes' = 0 /\ halfOpenCnt' = 0
                       /\ last = StateChangeHook(HalfOpen, Closed)
                 /\ (state # Closed /\ state' = Closed) =>
                       \/ ev'.op = "Reset"
                       \/ ev'.op = "record" /\ s = HalfOpen /\ e = nil
      ]_vars

UnvalidatedThresholdsWitness ==
    /\ cfg.failureThreshold < 1
    /\ ev.op = "record" /\ locals[ev.p].fnErr = errTest
    /\ ev.hooks = <<StateChangeHook(Closed, Open)>>
    /\ state = Open /\ failures = 0

(* C35 - zero or negative openDuration: Open is never observed. State()    *)
(* never returns Open, no Do is rejected for Open (a rejected Do found     *)
(* HalfOpen at its limit), the first query, admission check or record      *)
(* after a trip fires onStateChange(Open, HalfOpen), and with              *)
(* halfOpenRequests >= 1 a Do that finds the circuit Open is admitted as   *)
(* the first probe.                                                        *)
ZeroOpenDuration ==
    [][cfg.openDuration <= 0 =>
          /\ ev'.op = "State" => ev'.ret # Open
          /\ (ev'.op = "allow" /\ ev'.ret # nil) =>
                /\ state' = HalfOpen /\ locals'[ev'.p].state = HalfOpen
                /\ halfOpenCnt' >= cfg.halfOpenRequests
          /\ (state = Open /\ ev'.op \in {"State", "allow", "record"}) =>
                /\ ev'.hooks # <<>>
                /\ Head(ev'.hooks) = StateChangeHook(Open, HalfOpen)
          /\ (state = Open /\ ev'.op = "allow" /\ cfg.halfOpenRequests >= 1) =>
                /\ ev'.ret = nil /\ pc'[ev'.p] = "running"
                /\ state' = HalfOpen /\ halfOpenCnt' = 1
          /\ ev'.op = "Do" => ~(pc[ev'.p] = "rejected" /\ locals[ev'.p].state = Open)
      ]_vars

ZeroOpenDurationWitness ==
    /\ cfg.openDuration <= 0 /\ now = openedAt
    /\ ev.op = "allow" /\ ev.ret = nil
    /\ ev.hooks = <<StateChangeHook(Open, HalfOpen)>>
    /\ state = HalfOpen /\ halfOpenCnt = 1

(* C36 - recovery liveness: with failureThreshold >= 1 and                 *)
(* halfOpenRequests >= successThreshold >= 1, if callers keep calling Do,  *)
(* every admitted operation returns, the clock passes the end of every     *)
(* open period and the operations succeed from some instant on, then the   *)
(* circuit eventually is Closed for good, without Reset(), and no call is  *)
(* rejected any more.                                                      *)
RecoveryLiveness ==
    <>[](state = Closed /\ \A p \in Callers : pc[p] # "rejected")

RecoveryLivenessWitness ==
    /\ now >= HealTime
    /\ cfg.successThreshold = MaxThreshold
    /\ ev.op = "record" /\ ev.hooks = <<StateChangeHook(HalfOpen, Closed)>>
    /\ state = Closed

=============================================================================
